---- MODULE Spec2Model ----
(***************************************************************************)
(* A model of src/src/securid.c (SecurID token handling): the custom MAC,  *)
(* key-hash derivation, the ctf token codec, seed decryption, the          *)
(* tokencode generator, the expiry check and the PIN cryptor.              *)
(*                                                                         *)
(* Bytes are naturals 0..255, C strings are sequences of character codes   *)
(* (without the terminating NUL), byte buffers are sequences indexed from  *)
(* 1 (C index i is element i+1).                                           *)
(*                                                                         *)
(* The AES-128 primitive is libtomcrypt's rijndael code, outside this      *)
(* repository.  It is modelled by a stand-in keyed permutation of 16-byte  *)
(* blocks: for every key, encryption is a bijection and decryption its     *)
(* inverse, and the output depends on every key and input byte.  Nothing   *)
(* else of AES is assumed by the properties below.                         *)
(***************************************************************************)
EXTENDS Integers, Sequences, FiniteSets, TLC

VARIABLES t, rc, call, inp, outp

vars == <<t, rc, call, inp, outp>>

(***************************************************************************)
(* Constants of securid.h (the header is not part of src/).                *)
(***************************************************************************)
AES_BLOCK_SIZE == 16
AES_KEY_SIZE == 16
MAX_PASS == 40
MAGIC_LEN == 7
MIN_PIN == 4
MAX_PIN == 8
VER_CHARS == 1
SERIAL_CHARS == 12
CHECKSUM_CHARS == 5
CHECKSUM_BITS == 15
BINENC_BITS == 189
TOKEN_BITS_PER_CHAR == 3
MIN_TOKEN_CHARS == 71
MAX_TOKEN_CHARS == 81
DEVID_CHARS == 40
(* sizeof(d) in the codec: MAX_TOKEN_BITS / 8 + 2, with MAX_TOKEN_BITS 255 *)
TOKEN_BUF_LEN == 33
SECURID_EPOCH == 946684800
FL_PASSPROT == 8192
FL_SNPROT == 4096
FL_128BIT == 16384
FL_FEAT5 == 512
FLD_DIGIT_MASK == 448
FLD_PINMODE_MASK == 24
FLD_NUMSECONDS_SHIFT == 0

BINENC_OFS == VER_CHARS + SERIAL_CHARS
BINENC_CHARS == BINENC_BITS \div TOKEN_BITS_PER_CHAR
CHECKSUM_OFS == BINENC_OFS + BINENC_CHARS

ERR_NONE == "ERR_NONE"
ERR_GENERAL == "ERR_GENERAL"
ERR_BAD_LEN == "ERR_BAD_LEN"
ERR_TOKEN_VERSION == "ERR_TOKEN_VERSION"
ERR_CHECKSUM_FAILED == "ERR_CHECKSUM_FAILED"
ERR_BAD_PASSWORD == "ERR_BAD_PASSWORD"
ERR_MISSING_PASSWORD == "ERR_MISSING_PASSWORD"
ERR_DECRYPT_FAILED == "ERR_DECRYPT_FAILED"
ERR_BAD_DEVID == "ERR_BAD_DEVID"

(* The NULL pointer, as a value no C string equals. *)
NULL == <<-1>>

(***************************************************************************)
(* C integer helpers.                                                      *)
(***************************************************************************)
Bit(x, k) == (x \div (2 ^ k)) % 2

(* TLC evaluates an operator's argument anew at every use of the parameter.
   Operators below that use a parameter more than once therefore bind it
   first, "CHOOSE r \in { e(x) : x \in {a} } : TRUE", which evaluates a once
   and then e on its value. *)

(* a ^ b on uint8_t *)
Xor8(a, b) ==
    CHOOSE r \in { ((Bit(x, 0) + Bit(y, 0)) % 2)
                   + 2 * ((Bit(x, 1) + Bit(y, 1)) % 2)
                   + 4 * ((Bit(x, 2) + Bit(y, 2)) % 2)
                   + 8 * ((Bit(x, 3) + Bit(y, 3)) % 2)
                   + 16 * ((Bit(x, 4) + Bit(y, 4)) % 2)
                   + 32 * ((Bit(x, 5) + Bit(y, 5)) % 2)
                   + 64 * ((Bit(x, 6) + Bit(y, 6)) % 2)
                   + 128 * ((Bit(x, 7) + Bit(y, 7)) % 2) : x \in {a}, y \in {b} } : TRUE

(* a | b on uint8_t *)
Or8(a, b) ==
    CHOOSE r \in { (IF Bit(x, 0) + Bit(y, 0) > 0 THEN 1 ELSE 0)
                   + (IF Bit(x, 1) + Bit(y, 1) > 0 THEN 2 ELSE 0)
                   + (IF Bit(x, 2) + Bit(y, 2) > 0 THEN 4 ELSE 0)
                   + (IF Bit(x, 3) + Bit(y, 3) > 0 THEN 8 ELSE 0)
                   + (IF Bit(x, 4) + Bit(y, 4) > 0 THEN 16 ELSE 0)
                   + (IF Bit(x, 5) + Bit(y, 5) > 0 THEN 32 ELSE 0)
                   + (IF Bit(x, 6) + Bit(y, 6) > 0 THEN 64 ELSE 0)
                   + (IF Bit(x, 7) + Bit(y, 7) > 0 THEN 128 ELSE 0) : x \in {a}, y \in {b} } : TRUE

(* C's signed division, which truncates toward zero *)
CDiv(a, b) == IF a >= 0 THEN a \div b ELSE -((-a) \div b)

Zeros(n) == [i \in 1..n |-> 0]
Rep(c, n) == [i \in 1..n |-> c]

(* memcpy(dst + ofs, src, Len(src)): C offset ofs *)
MemCpy(dst, ofs, src) ==
    CHOOSE r \in { [i \in 1..Len(d) |->
                      IF i > ofs /\ i <= ofs + Len(x) THEN x[i - ofs] ELSE d[i]]
                   : d \in {dst}, x \in {src} } : TRUE

isdigit(c) == c >= 48 /\ c <= 57
isxdigit(c) == isdigit(c) \/ (c >= 65 /\ c <= 70) \/ (c >= 97 /\ c <= 102)

(***************************************************************************)
(* The block cipher stand-in for rijndael_ecb_encrypt and                  *)
(* rijndael_ecb_decrypt under a 16-byte key: a keyed permutation of        *)
(* 16-byte blocks.  Encryption adds the key along a forward carry chain,   *)
(* rotates the block by one byte while applying a byte bijection mixed     *)
(* with a key checksum, and runs a backward carry chain.  Decryption       *)
(* undoes the three steps in reverse order.                                *)
(***************************************************************************)
KeySum(key) ==
    CHOOSE r \in { LET s[i \in 0..16] ==
                        IF i = 0 THEN 0 ELSE (s[i - 1] + i * k[i]) % 256
                   IN s[16] : k \in {key} } : TRUE

CipherAddChain(key, in) ==
    CHOOSE r \in { LET b[i \in 1..16] ==
                        IF i = 1 THEN (x[1] + k[1]) % 256
                        ELSE (x[i] + k[i] + b[i - 1]) % 256
                   IN [i \in 1..16 |-> b[i]] : k \in {key}, x \in {in} } : TRUE

CipherMix(ks, b) ==
    CHOOSE r \in { [i \in 1..16 |-> (167 * x[(i % 16) + 1] + 13 + s) % 256]
                   : s \in {ks}, x \in {b} } : TRUE

CipherBackChain(d) ==
    CHOOSE r \in { LET e[i \in 1..16] ==
                        IF i = 16 THEN x[16] ELSE (x[i] + e[i + 1]) % 256
                   IN [i \in 1..16 |-> e[i]] : x \in {d} } : TRUE

CipherEnc(key, in) ==
    CHOOSE r \in { CipherBackChain(CipherMix(KeySum(k), CipherAddChain(k, x)))
                   : k \in {key}, x \in {in} } : TRUE

CipherUnBackChain(out) ==
    CHOOSE r \in { [i \in 1..16 |->
                      IF i = 16 THEN x[16] ELSE (x[i] + 256 - x[i + 1]) % 256]
                   : x \in {out} } : TRUE

CipherUnMix(ks, d) ==
    CHOOSE r \in { [i \in 1..16 |->
                      (23 * (x[((i + 14) % 16) + 1] + 512 - 13 - s)) % 256]
                   : s \in {ks}, x \in {d} } : TRUE

CipherUnAddChain(key, b) ==
    CHOOSE r \in { [i \in 1..16 |->
                      IF i = 1 THEN (x[1] + 256 - k[1]) % 256
                      ELSE (x[i] + 512 - x[i - 1] - k[i]) % 256]
                   : k \in {key}, x \in {b} } : TRUE

CipherDec(key, out) ==
    CHOOSE r \in { CipherUnAddChain(k, CipherUnMix(KeySum(k), CipherUnBackChain(x)))
                   : k \in {key}, x \in {out} } : TRUE

aes128_ecb_encrypt(key, in) == CipherEnc(key, in)

(* a decryption that runs the cipher forwards *)
aes128_ecb_decrypt_forward(key, in) == CipherEnc(key, in)

aes128_ecb_decrypt(key, in) == CipherDec(key, in)

XorBlock(a, b) ==
    CHOOSE r \in { [i \in 1..AES_BLOCK_SIZE |-> Xor8(x[i], y[i])]
                   : x \in {a}, y \in {b} } : TRUE

(* encrypt_then_xor(key, work, enc): the new contents of work *)
encrypt_then_xor(key, work) ==
    CHOOSE r \in { XorBlock(w, aes128_ecb_encrypt(key, w)) : w \in {work} } : TRUE

(***************************************************************************)
(* securid_mac.                                                            *)
(***************************************************************************)
(* the padding block: the int in_len * 8, big-endian, in the low bytes *)
MacPad(in_len) ==
    [k \in 1..AES_KEY_SIZE |->
        IF AES_KEY_SIZE - k >= 4 THEN 0
        ELSE ((in_len * 8) \div (256 ^ (AES_KEY_SIZE - k))) % 256]

(* the number of iterations of the bulk loop, "for (; in_len > incr; ...)" *)
RECURSIVE MacBulkCountGE(_)
MacBulkCountGE(in_len) ==
    IF in_len >= AES_KEY_SIZE THEN 1 + MacBulkCountGE(in_len - AES_KEY_SIZE) ELSE 0

RECURSIVE MacBulkCount(_)
MacBulkCount(in_len) ==
    IF in_len > AES_KEY_SIZE THEN 1 + MacBulkCount(in_len - AES_KEY_SIZE) ELSE 0

(* The blocks securid_mac hands to encrypt_then_xor as keys, in order,
   before the final step: the bulk blocks, lastblk, zero if odd, pad. *)
MacBlocksOf(in, cnt) ==
    LET n == Len(in)
        odd == cnt % 2
        bulk == [k \in 1..cnt |->
                    SubSeq(in, (k - 1) * AES_KEY_SIZE + 1, k * AES_KEY_SIZE)]
        lastblk == MemCpy(Zeros(AES_KEY_SIZE), 0,
                          SubSeq(in, cnt * AES_KEY_SIZE + 1, n))
    IN bulk \o <<lastblk>>
            \o (IF odd = 1 THEN <<Zeros(AES_KEY_SIZE)>> ELSE <<>>)
            \o <<MacPad(n)>>

MacBlocks(in) ==
    CHOOSE r \in { MacBlocksOf(x, c) : <<x, c>> \in { <<y, MacBulkCount(Len(y))>> : y \in {in} } } : TRUE

RECURSIVE MacAbsorb(_, _)
MacAbsorb(blocks, work) ==
    CHOOSE r \in { IF b = <<>> THEN w
                   ELSE MacAbsorb(Tail(b), encrypt_then_xor(Head(b), w))
                   : b \in {blocks}, w \in {work} } : TRUE

(* "run hash over current hash value": out := work; out ^= AES(key=work, out) *)
MacFinal(work) ==
    CHOOSE r \in { encrypt_then_xor(w, w) : w \in {work} } : TRUE

securid_mac(in) == MacFinal(MacAbsorb(MacBlocks(in), Rep(255, AES_KEY_SIZE)))

ShortOf(hash) ==
    CHOOSE r \in { ((h[1] * 128) + (h[2] \div 2)) % 65536 : h \in {hash} } : TRUE

securid_shortmac(in) == ShortOf(securid_mac(in))

(***************************************************************************)
(* Bit and numeric codecs.  A buffer d is a sequence of TOKEN_BUF_LEN      *)
(* bytes; every caller passes the start of d.                              *)
(***************************************************************************)
(* one pass of the loop body of numinput_to_bits; st.i counts the
   characters consumed *)
NumInStep(in, st) ==
    LET decoded == (((in[st.i + 1] - 48 + 256) % 8) * (2 ^ st.bitpos)) % 65536
        nb == st.bitpos - TOKEN_BITS_PER_CHAR
    IN [i |-> st.i + 1,
        d |-> [st.d EXCEPT ![st.o + 1] = Or8(@, decoded \div 256),
                           ![st.o + 2] = Or8(st.d[st.o + 2], decoded % 256)],
        o |-> IF nb < 0 THEN st.o + 1 ELSE st.o,
        bitpos |-> IF nb < 0 THEN nb + 8 ELSE nb]

(* cnt passes of the loop, from the loop state st *)
RECURSIVE NumInLoop(_, _, _)
NumInLoop(in, st, cnt) ==
    CHOOSE r \in {
        IF n = 0 THEN s
        ELSE IF n = 1 THEN NumInStep(str, s)
        ELSE NumInLoop(str, NumInLoop(str, s, n \div 2), n - (n \div 2))
        : s \in {st}, str \in {in}, n \in {cnt} } : TRUE

(* numinput_to_bits(in, d, n_bits): d afterwards *)
numinput_to_bits(in, d, n_bits) ==
    CHOOSE r \in {
        NumInLoop(str, [i |-> 0, d |-> buf, o |-> 0, bitpos |-> 13],
                  n_bits \div TOKEN_BITS_PER_CHAR).d
        : str \in {in}, buf \in {MemCpy(d, 0, Zeros((n_bits + 7) \div 8))} } : TRUE

(* one pass of the loop body of bits_to_numoutput *)
NumOutStep(d, st) ==
    LET binary == d[st.o + 1] * 256 + d[st.o + 2]
        nb == st.bitpos - TOKEN_BITS_PER_CHAR
    IN [out |-> Append(st.out, ((binary \div (2 ^ st.bitpos)) % 8) + 48),
        o |-> IF nb < 0 THEN st.o + 1 ELSE st.o,
        bitpos |-> IF nb < 0 THEN nb + 8 ELSE nb]

RECURSIVE NumOutLoop(_, _, _)
NumOutLoop(d, st, cnt) ==
    CHOOSE r \in {
        IF n = 0 THEN s
        ELSE IF n = 1 THEN NumOutStep(buf, s)
        ELSE NumOutLoop(buf, NumOutLoop(buf, s, n \div 2), n - (n \div 2))
        : s \in {st}, buf \in {d}, n \in {cnt} } : TRUE

(* bits_to_numoutput(d, out, n_bits): the characters written, without the NUL *)
bits_to_numoutput(d, n_bits) ==
    CHOOSE r \in {
        NumOutLoop(buf, [out |-> <<>>, o |-> 0, bitpos |-> 13],
                   n_bits \div TOKEN_BITS_PER_CHAR).out
        : buf \in {d} } : TRUE

RECURSIVE GetBitsLoop(_, _, _, _, _)
GetBitsLoop(d, o, start, n_bits, out) ==
    CHOOSE r \in {
        IF n <= 0 THEN v
        ELSE GetBitsLoop(buf,
                         IF st + 1 = 8 THEN oo + 1 ELSE oo,
                         IF st + 1 = 8 THEN 0 ELSE st + 1,
                         n - 1,
                         2 * v + Bit(buf[oo + 1], 7 - st))
        : buf \in {d}, oo \in {o}, st \in {start}, n \in {n_bits}, v \in {out} } : TRUE

(* a get_bits that drops the bit offset within the first byte *)
get_bits_bytealigned(d, start, n_bits) == GetBitsLoop(d, start \div 8, 0, n_bits, 0)

get_bits(d, start, n_bits) == GetBitsLoop(d, start \div 8, start % 8, n_bits, 0)

RECURSIVE SetBitsLoop(_, _, _, _, _)
SetBitsLoop(d, o, start, n_bits, val) ==
    CHOOSE r \in {
        IF n <= 0 THEN buf
        ELSE SetBitsLoop([buf EXCEPT ![oo + 1] =
                              IF Bit(v, n - 1) = 1
                              THEN Or8(@, 2 ^ (7 - st))
                              ELSE @ - Bit(@, 7 - st) * (2 ^ (7 - st))],
                         IF st + 1 = 8 THEN oo + 1 ELSE oo,
                         IF st + 1 = 8 THEN 0 ELSE st + 1,
                         n - 1,
                         v)
        : buf \in {d}, oo \in {o}, st \in {start}, n \in {n_bits}, v \in {val} } : TRUE

(* set_bits(d, start, n_bits, val): d afterwards.  val <<= 32 - n_bits keeps
   exactly the low n_bits bits of val, written most significant first. *)
set_bits(d, start, n_bits, val) == SetBitsLoop(d, start \div 8, start % 8, n_bits, val)

(***************************************************************************)
(* generate_key_hash.  The result carries, besides rc, key_hash and        *)
(* device_id_hash, the number of device-id characters copied into key[]    *)
(* and the bytes handed to securid_mac.                                    *)
(***************************************************************************)
MAGIC == <<216, 245, 50, 83, 130, 137, 0>>

DevidLen(is_smartphone) == IF is_smartphone # 0 THEN 40 ELSE 32

(* one pass of the loop over devid: st.i counts the characters passed,
   st.rc is set once the loop has returned *)
DevidStep(devid, st, is_smartphone) ==
    LET c == devid[st.i + 1]
    IN IF st.rc # ERR_NONE THEN st
       ELSE IF (is_smartphone # 0 /\ ~isxdigit(c)) \/ (is_smartphone = 0 /\ ~isdigit(c))
       THEN [st EXCEPT !.i = st.i + 1]
       ELSE IF st.len > DevidLen(is_smartphone)
       THEN [st EXCEPT !.rc = ERR_BAD_PASSWORD, !.len = st.len + 1]
       ELSE [st EXCEPT !.i = st.i + 1, !.len = st.len + 1, !.pos = st.pos + 1,
                       !.key = [st.key EXCEPT ![st.pos + 1] = c]]

(* cnt passes of the loop, from the loop state st *)
RECURSIVE DevidRun(_, _, _, _)
DevidRun(devid, st, cnt, is_smartphone) ==
    CHOOSE r \in {
        IF n = 0 THEN s
        ELSE IF n = 1 THEN DevidStep(dv, s, is_smartphone)
        ELSE DevidRun(dv, DevidRun(dv, s, n \div 2, is_smartphone),
                      n - (n \div 2), is_smartphone)
        : s \in {st}, dv \in {devid}, n \in {cnt} } : TRUE

DevidLoop(devid, len, pos, key, is_smartphone) ==
    CHOOSE r \in {
        DevidRun(dv, [rc |-> ERR_NONE, i |-> 0, len |-> len, pos |-> pos, key |-> k],
                 Len(dv), is_smartphone)
        : dv \in {devid}, k \in {key} } : TRUE

KeyHashFail(copied) ==
    [rc |-> ERR_BAD_PASSWORD, key_hash |-> Zeros(AES_BLOCK_SIZE),
     device_id_hash |-> 0, copied |-> copied, mac_in |-> <<>>]

(* a key hash taken over the device id padded to devid_len bytes *)
KeyHashFromPadded(pos0, lp, is_smartphone) ==
    CHOOSE r \in {
        IF q.rc # ERR_NONE THEN KeyHashFail(q.pos - pos0)
        ELSE LET e == pos0 + DevidLen(is_smartphone)
             IN [rc |-> ERR_NONE,
                 key_hash |-> securid_mac(SubSeq(MemCpy(q.key, e, MAGIC),
                                                 1, e + MAGIC_LEN)),
                 device_id_hash |->
                     securid_shortmac(SubSeq(q.key, pos0 + 1, e)),
                 copied |-> q.pos - pos0,
                 mac_in |-> SubSeq(MemCpy(q.key, e, MAGIC), 1, e + MAGIC_LEN)]
        : q \in {lp} } : TRUE

KeyHashFrom(pos0, lp, is_smartphone) ==
    CHOOSE r \in {
        IF q.rc # ERR_NONE THEN KeyHashFail(q.pos - pos0)
        ELSE [rc |-> ERR_NONE,
              key_hash |-> securid_mac(SubSeq(MemCpy(q.key, q.pos, MAGIC),
                                              1, q.pos + MAGIC_LEN)),
              device_id_hash |->
                  securid_shortmac(SubSeq(q.key, pos0 + 1,
                                          pos0 + DevidLen(is_smartphone))),
              copied |-> q.pos - pos0,
              mac_in |-> SubSeq(MemCpy(q.key, q.pos, MAGIC), 1, q.pos + MAGIC_LEN)]
        : q \in {lp} } : TRUE

generate_key_hash(pass, devid, is_smartphone) ==
    CHOOSE r \in {
        IF p # NULL /\ Len(p) > MAX_PASS THEN KeyHashFail(0)
        ELSE LET key0 == Zeros(MAX_PASS + DEVID_CHARS + MAGIC_LEN + 1)
                 pos0 == IF p # NULL THEN Len(p) ELSE 0
                 key1 == IF p # NULL THEN MemCpy(key0, 0, p) ELSE key0
             IN KeyHashFrom(pos0,
                            IF dv # NULL
                            THEN DevidLoop(dv, 0, pos0, key1, is_smartphone)
                            ELSE [rc |-> ERR_NONE, key |-> key1, pos |-> pos0],
                            is_smartphone)
        : p \in {pass}, dv \in {devid} } : TRUE

(***************************************************************************)
(* The token record and the operations on it.                              *)
(***************************************************************************)
HasFlag(flags, fl) == (flags \div fl) % 2 = 1

SetFlag(flags, fl) == IF HasFlag(flags, fl) THEN flags ELSE flags + fl

ClearFlag(flags, fl) == IF HasFlag(flags, fl) THEN flags - fl ELSE flags

(* the record after memset(t, 0, sizeof t) *)
NoToken ==
    [serial |-> <<>>, flags |-> 0, exp_date |-> 0,
     is_smartphone |-> 0, has_enc_seed |-> 0, enc_seed |-> Zeros(AES_KEY_SIZE),
     dec_seed_hash |-> 0, device_id_hash |-> 0,
     has_dec_seed |-> 0, dec_seed |-> Zeros(AES_KEY_SIZE),
     pinmode |-> 0, pin |-> <<>>]

DecodeFields(in, d) ==
    CHOOSE r \in {
        [NoToken EXCEPT
            !.serial = SubSeq(s, VER_CHARS + 1, VER_CHARS + SERIAL_CHARS),
            !.enc_seed = SubSeq(buf, 1, AES_KEY_SIZE),
            !.has_enc_seed = 1,
            !.flags = get_bits(buf, 128, 16),
            !.exp_date = get_bits(buf, 144, 14),
            !.dec_seed_hash = get_bits(buf, 159, 15),
            !.device_id_hash = get_bits(buf, 174, 15)]
        : s \in {in}, buf \in {d} } : TRUE

(* securid_decode_token(in, t): rc and *t afterwards.  d is an
   uninitialized stack buffer: every byte of it starts as junk. *)
securid_decode_token(in, told, junk) ==
    CHOOSE r \in {
        IF Len(s) < MIN_TOKEN_CHARS \/ Len(s) > MAX_TOKEN_CHARS
        THEN [rc |-> ERR_BAD_LEN, t |-> told]
        ELSE IF s[1] # 49 /\ s[1] # 50
        THEN [rc |-> ERR_TOKEN_VERSION, t |-> told]
        ELSE IF get_bits(numinput_to_bits(SubSeq(s, Len(s) - CHECKSUM_CHARS + 1, Len(s)),
                                          Rep(junk, TOKEN_BUF_LEN), 15), 0, 15)
                # securid_shortmac(SubSeq(s, 1, Len(s) - CHECKSUM_CHARS))
        THEN [rc |-> ERR_CHECKSUM_FAILED, t |-> NoToken]
        ELSE [rc |-> ERR_NONE,
              t |-> DecodeFields(s,
                      numinput_to_bits(SubSeq(s, BINENC_OFS + 1, Len(s)),
                          numinput_to_bits(SubSeq(s, Len(s) - CHECKSUM_CHARS + 1, Len(s)),
                                           Rep(junk, TOKEN_BUF_LEN), 15),
                          BINENC_BITS))]
        : s \in {in} } : TRUE

DecryptCheck(tok, dec_seed) ==
    CHOOSE r \in {
        IF securid_shortmac(ds) # tok.dec_seed_hash
        THEN [rc |-> ERR_DECRYPT_FAILED, t |-> [tok EXCEPT !.dec_seed = ds]]
        ELSE [rc |-> ERR_NONE,
              t |-> [tok EXCEPT !.dec_seed = ds, !.has_dec_seed = 1]]
        : ds \in {dec_seed} } : TRUE

DecryptWith(tok, kh) ==
    CHOOSE r \in {
        IF k.rc # ERR_NONE THEN [rc |-> k.rc, t |-> tok]
        ELSE IF HasFlag(tok.flags, FL_SNPROT) /\ k.device_id_hash # tok.device_id_hash
        THEN [rc |-> ERR_BAD_DEVID, t |-> tok]
        ELSE DecryptCheck(tok, aes128_ecb_decrypt(k.key_hash, tok.enc_seed))
        : k \in {kh} } : TRUE

(* securid_decrypt_seed(t, pass, devid): rc and *t afterwards *)
securid_decrypt_seed(tok, pass, devid) ==
    IF HasFlag(tok.flags, FL_PASSPROT) /\ pass = NULL
    THEN [rc |-> ERR_MISSING_PASSWORD, t |-> tok]
    ELSE IF HasFlag(tok.flags, FL_SNPROT) /\ devid = NULL
    THEN [rc |-> ERR_MISSING_PASSWORD, t |-> tok]
    ELSE DecryptWith(tok,
            generate_key_hash(IF HasFlag(tok.flags, FL_PASSPROT) THEN pass ELSE NULL,
                              IF HasFlag(tok.flags, FL_SNPROT) THEN devid ELSE NULL,
                              tok.is_smartphone))

EncodeChecksum(out, d) ==
    CHOOSE r \in {
        s \o bits_to_numoutput(set_bits(d, 0, 15, securid_shortmac(s)),
                                CHECKSUM_BITS)
        : s \in {out} } : TRUE

EncodeBuf(newt) ==
    CHOOSE r \in {
        set_bits(
          set_bits(
            set_bits(
              set_bits(MemCpy(Zeros(TOKEN_BUF_LEN), 0, n.enc_seed),
                       128, 16, n.flags),
              144, 14, n.exp_date),
            159, 15, securid_shortmac(n.dec_seed)),
          174, 15, n.device_id_hash)
        : n \in {newt} } : TRUE

EncodeOut(newt, d) ==
    CHOOSE r \in {
        EncodeChecksum(<<50>> \o newt.serial \o bits_to_numoutput(buf, BINENC_BITS), buf)
        : buf \in {d} } : TRUE

EncodeWith(tok, p, dv, kh) ==
    CHOOSE r \in {
        IF k.rc # ERR_NONE THEN [rc |-> k.rc, out |-> <<>>, newt |-> tok]
        ELSE CHOOSE q \in {
                [rc |-> ERR_NONE, out |-> EncodeOut(n, EncodeBuf(n)), newt |-> n]
                : n \in { [tok EXCEPT
                             !.device_id_hash = k.device_id_hash,
                             !.flags =
                                 LET f1 == IF p # NULL THEN SetFlag(@, FL_PASSPROT)
                                           ELSE ClearFlag(@, FL_PASSPROT)
                                 IN IF dv # NULL THEN SetFlag(f1, FL_SNPROT)
                                    ELSE ClearFlag(f1, FL_SNPROT),
                             !.enc_seed = aes128_ecb_encrypt(k.key_hash, tok.dec_seed)] }
             } : TRUE
        : k \in {kh} } : TRUE

(* securid_encode_token(t, pass, devid, out): rc, the string written to out
   and the local copy newt that was packed *)
securid_encode_token(tok, pass, devid) ==
    CHOOSE r \in {
        EncodeWith(tok, p, dv, generate_key_hash(p, dv, tok.is_smartphone))
        : p \in { IF pass # NULL /\ Len(pass) = 0 THEN NULL ELSE pass },
          dv \in { IF devid # NULL /\ Len(devid) = 0 THEN NULL ELSE devid } } : TRUE

(* securid_random_token(t): rc and *t afterwards; rng_ok says whether both
   securid_rand calls succeeded, seed and randbytes are what they delivered *)
securid_random_token(now, rng_ok, seed, randbytes) ==
    IF ~rng_ok
    THEN [rc |-> ERR_GENERAL, t |-> [NoToken EXCEPT !.dec_seed = seed]]
    ELSE [rc |-> ERR_NONE,
          t |-> [NoToken EXCEPT
                   !.dec_seed = seed,
                   !.dec_seed_hash = securid_shortmac(seed),
                   !.device_id_hash = generate_key_hash(NULL, NULL, 0).device_id_hash,
                   !.enc_seed = aes128_ecb_encrypt(
                                    generate_key_hash(NULL, NULL, 0).key_hash, seed),
                   !.has_enc_seed = 1,
                   !.flags = FL_FEAT5 + FLD_DIGIT_MASK + FLD_PINMODE_MASK
                             + (2 ^ FLD_NUMSECONDS_SHIFT) + FL_128BIT,
                   !.pinmode = 3,
                   !.serial = [i \in 1..12 |-> 48 + (randbytes[i] % 10)],
                   !.exp_date = (CDiv(now - SECURID_EPOCH, 24 * 60 * 60) + 60
                                 + (randbytes[13] % 16) * 30) % 65536]]

(***************************************************************************)
(* PIN handling.  A char buffer is a sequence of bytes; strlen is the      *)
(* number of bytes before the first 0.                                     *)
(***************************************************************************)
RECURSIVE strlen(_)
strlen(buf) ==
    CHOOSE r \in { IF b = <<>> \/ Head(b) = 0 THEN 0 ELSE 1 + strlen(Tail(b))
                   : b \in {buf} } : TRUE

securid_pin_format_ok(pin) ==
    IF Len(pin) < MIN_PIN \/ Len(pin) > MAX_PIN THEN ERR_BAD_LEN
    ELSE IF \E i \in 1..Len(pin) : ~isdigit(pin[i]) THEN ERR_GENERAL
    ELSE ERR_NONE

(* one digit of sprintf's %02x *)
HexChar(n) == IF n < 10 THEN 48 + n ELSE 87 + n

(* sprintf(ret + 2 * i, "%02x", b[i]) for the 16 bytes of b *)
HexString(b) ==
    [k \in 1..(2 * AES_BLOCK_SIZE) |->
        IF k % 2 = 1 THEN HexChar(b[(k + 1) \div 2] \div 16)
        ELSE HexChar(b[k \div 2] % 16)]

(* securid_encrypt_pin: the returned string, or NULL *)
securid_encrypt_pin(pin, password, rand_ok, iv, malloc_ok) ==
    IF securid_pin_format_ok(pin) # ERR_NONE THEN NULL
    ELSE IF ~rand_ok THEN NULL
    ELSE IF ~malloc_ok THEN NULL
    ELSE CHOOSE r \in {
            HexString(iv) \o HexString(aes128_ecb_encrypt(ph, XorBlock(b, iv)))
            : ph \in {securid_mac(password)},
              b \in {[MemCpy(Zeros(AES_BLOCK_SIZE), 0, pin)
                        EXCEPT ![AES_BLOCK_SIZE] = Len(pin)]} } : TRUE

(* hex2byte with the low digit taken as in[1] - '0' for letters too *)
hex2byte_rawlow(in) ==
    LET ret == (in[2] - 48) % 256
    IN IF in[1] > 57 THEN (ret + (in[1] - 39) * 16) % 256
       ELSE (ret + (in[1] - 48) * 16) % 256

(* uint8_t arithmetic; hex_offs = 'a' - '0' - 10 *)
hex2byte(in) ==
    LET hex_offs == 97 - 48 - 10
        ret0 == (in[2] - 48) % 256
        ret == IF ret0 > 9 THEN (ret0 - hex_offs) % 256 ELSE ret0
    IN IF in[1] > 57 THEN (ret + (in[1] - hex_offs) * 16) % 256
       ELSE (ret + (in[1] - 48) * 16) % 256

(* securid_decrypt_pin: the return code and the bytes written to pin *)
securid_decrypt_pin(enc_pin, password) ==
    IF Len(enc_pin) # AES_BLOCK_SIZE * 2 * 2
    THEN [rc |-> ERR_BAD_LEN, pin |-> NULL]
    ELSE CHOOSE r \in {
            IF buf[AES_BLOCK_SIZE - 1] # 0 \/ buf[AES_BLOCK_SIZE] # strlen(buf)
            THEN [rc |-> ERR_GENERAL, pin |-> NULL]
            ELSE IF securid_pin_format_ok(SubSeq(buf, 1, strlen(buf))) # ERR_NONE
            THEN [rc |-> ERR_GENERAL, pin |-> NULL]
            ELSE [rc |-> ERR_NONE, pin |-> SubSeq(buf, 1, strlen(buf))]
            : buf \in { XorBlock(
                          aes128_ecb_decrypt(
                              securid_mac(password),
                              [i \in 1..AES_BLOCK_SIZE |->
                                  hex2byte(SubSeq(enc_pin, 2 * (i + AES_BLOCK_SIZE) - 1,
                                                  2 * (i + AES_BLOCK_SIZE)))]),
                          [i \in 1..AES_BLOCK_SIZE |->
                              hex2byte(SubSeq(enc_pin, 2 * i - 1, 2 * i))]) } } : TRUE

(***************************************************************************)
(* Tokencode computation.  gmtime is the C library's: the broken-down UTC  *)
(* time of a non-negative time_t, by the proleptic Gregorian calendar.     *)
(***************************************************************************)
gmtime(now) ==
    CHOOSE r \in {
        LET era == z \div 146097
            doe == z - era * 146097
            yoe == (doe - doe \div 1460 + doe \div 36524 - doe \div 146096) \div 365
            doy == doe - (365 * yoe + yoe \div 4 - yoe \div 100)
            mp == (5 * doy + 2) \div 153
            mday == doy - (153 * mp + 2) \div 5 + 1
            mon == IF mp < 10 THEN mp + 3 ELSE mp - 9
            year == yoe + era * 400 + (IF mon <= 2 THEN 1 ELSE 0)
        IN [tm_year |-> year - 1900, tm_mon |-> mon - 1, tm_mday |-> mday,
            tm_hour |-> rem \div 3600, tm_min |-> (rem % 3600) \div 60]
        : z \in {now \div 86400 + 719468}, rem \in {now % 86400} } : TRUE

(* bcd_write(out, val, bytes): the bytes written at out *)
bcd_write(val, bytes) ==
    [k \in 1..bytes |->
        LET v == val \div (100 ^ (bytes - k))
        IN Or8(v % 10, (((v \div 10) % 10) * 16) % 256)]

(* key_from_time: the 16 bytes of key *)
key_from_time(bcd_time, bcd_time_bytes, serial) ==
    [k \in 1..AES_KEY_SIZE |->
        IF k <= bcd_time_bytes THEN bcd_time[k]
        ELSE IF k <= 8 THEN 170
        ELSE IF k <= 12
        THEN Or8(((serial[2 * k - 13] - 48) * 16) % 256,
                 (serial[2 * k - 12] - 48) % 256)
        ELSE 187]

(* i = (gmt->tm_min & 0x03) << 2, taken from the quarter hour instead *)
TokencodeOffsetOfQuarter(tm_min) == ((tm_min \div 4) % 4) * 4

(* i = (gmt->tm_min & 0x03) << 2 *)
TokencodeOffset(tm_min) == (tm_min % 4) * 4

(* tokencode / 10 and tokencode % 10 of the uint32_t held big-endian in the
   four bytes of tokencode *)
RECURSIVE DivMod10(_, _, _)
DivMod10(tokencode, quot, rem) ==
    CHOOSE r \in {
        IF tc = <<>> THEN [quot |-> q, rem |-> m]
        ELSE DivMod10(Tail(tc), Append(q, (m * 256 + Head(tc)) \div 10),
                      (m * 256 + Head(tc)) % 10)
        : tc \in {tokencode}, q \in {quot}, m \in {rem} } : TRUE

(* the loop that writes code_out[7 - i] for i = 0..7 *)
RECURSIVE TokencodeDigits(_, _, _, _)
TokencodeDigits(tokencode, pin, i, code_out) ==
    CHOOSE r \in {
        IF i = 8 THEN co
        ELSE LET pin_len == Len(pin)
                 c == IF i < pin_len
                      THEN (dm.rem + pin[pin_len - i] - 48) % 256
                      ELSE dm.rem
             IN TokencodeDigits(dm.quot, pin, i + 1,
                                [co EXCEPT ![8 - i] = (c % 10) + 48])
        : dm \in {DivMod10(tokencode, <<>>, 0)}, co \in {code_out} } : TRUE

securid_compute_tokencode(tok, now) ==
    CHOOSE r \in {
        LET k1 == aes128_ecb_encrypt(tok.dec_seed, key_from_time(bcd_time, 2, tok.serial))
            k2 == aes128_ecb_encrypt(k1, key_from_time(bcd_time, 3, tok.serial))
            k3 == aes128_ecb_encrypt(k2, key_from_time(bcd_time, 4, tok.serial))
            k4 == aes128_ecb_encrypt(k3, key_from_time(bcd_time, 5, tok.serial))
        IN [gmt |-> gmt, bcd_time |-> bcd_time,
            key0 |-> aes128_ecb_encrypt(k4, key_from_time(bcd_time, 8, tok.serial))]
        : <<gmt, bcd_time>> \in {
              <<g, bcd_write(g.tm_year + 1900, 2) \o bcd_write(g.tm_mon + 1, 1)
                   \o bcd_write(g.tm_mday, 1) \o bcd_write(g.tm_hour, 1)
                   \o bcd_write(g.tm_min - (g.tm_min % 4), 1) \o <<0, 0>> >>
              : g \in {gmtime(now)} } } : TRUE

(* the rest of securid_compute_tokencode, from the choice of the slice *)
TokencodeOut(tok, res) ==
    CHOOSE r \in {
        [gmt |-> res.gmt, bcd_time |-> res.bcd_time, key0 |-> res.key0, i |-> i,
         tokencode |-> SubSeq(res.key0, i + 1, i + 4),
         code_out |-> TokencodeDigits(SubSeq(res.key0, i + 1, i + 4), tok.pin, 0,
                                      Zeros(8))]
        : i \in {TokencodeOffset(res.gmt.tm_min)} } : TRUE

(***************************************************************************)
(* Expiry check.  A time_t or int value v is held as [d, s] with           *)
(* v = d * wholeday + s and 0 <= s < wholeday, since the sums exceed the   *)
(* range of 32-bit integers.                                               *)
(***************************************************************************)
halfday == 60 * 60 * 12
wholeday == 60 * 60 * 24
INT_MAX == 2147483647

TimeOf(d, s) == [d |-> d + (s \div wholeday), s |-> s % wholeday]
TimeAdd(a, b) == TimeOf(a.d + b.d, a.s + b.s)
TimeSub(a, b) == TimeOf(a.d - b.d, a.s - b.s)
TimeGreater(a, b) == a.d > b.d \/ (a.d = b.d /\ a.s > b.s)

(* v / wholeday in C: the quotient truncated toward zero *)
TimeQuot(v) == IF v.d < 0 /\ v.s > 0 THEN v.d + 1 ELSE v.d

(* v - 2^32: the int a two's complement machine holds after the overflow *)
IntWrap(v) ==
    TimeSub(TimeSub(TimeSub(v, TimeOf(0, INT_MAX)), TimeOf(0, INT_MAX)), TimeOf(0, 2))

(* SECURID_EPOCH + (t->exp_date + 1) * wholeday, computed in int: past
   INT_MAX the behaviour is undefined, and a build either wraps or carries
   the exact sum in a wider register *)
ExpUnixTime(exp_date) ==
    LET sum == TimeOf(exp_date + 1, SECURID_EPOCH)
    IN IF TimeGreater(sum, TimeOf(0, INT_MAX)) THEN {IntWrap(sum), sum} ELSE {sum}

(* securid_check_exp: the values the call can return *)
securid_check_exp(exp_date, now) ==
    { TimeQuot(TimeSub(TimeAdd(e, TimeOf(0, halfday)), now)) : e \in ExpUnixTime(exp_date) }

(***************************************************************************)
(* Specification Spec: one token record *t and any sequence of             *)
(* securid_decode_token, securid_random_token and securid_decrypt_seed     *)
(* calls on it.  call records the last call and, for securid_decrypt_seed, *)
(* its arguments and the record before it.                                 *)
(***************************************************************************)
PW1 == <<112, 119>>
PW2 == <<120, 121, 122>>
DV1 == <<49, 50, 51>>
DV2 == <<49, 50, 97, 98, 45, 57>>

Seed1 == [i \in 1..AES_KEY_SIZE |-> (i * 11) % 256]
Seed2 == [i \in 1..AES_KEY_SIZE |-> 255 - i]

Serial1 == <<49, 50, 51, 52, 53, 54, 55, 56, 57, 48, 49, 50>>

BaseToken(seed) ==
    [NoToken EXCEPT !.serial = Serial1, !.dec_seed = seed,
                    !.flags = 17369, !.exp_date = 5000]

PassArgs == {NULL, <<>>, PW1, PW2}
DevidArgs == {NULL, <<>>, DV1, DV2}

ValidStrings ==
    { securid_encode_token(BaseToken(Seed1), p, dv).out :
        p \in {NULL, PW1}, dv \in {NULL, DV1} }

(* ctf strings handed to securid_decode_token: well-formed ones, one with a
   digit changed, one with version '3', one too short and one too long *)
PlainString == securid_encode_token(BaseToken(Seed1), NULL, NULL).out

DecodeInputs ==
    ValidStrings
    \cup { [PlainString EXCEPT ![20] = 48 + ((@ - 48 + 1) % 8)],
           [PlainString EXCEPT ![1] = 51],
           Rep(50, MIN_TOKEN_CHARS - 1), Rep(50, MAX_TOKEN_CHARS + 1) }

StackJunk == {0, 170}

NowArgs == {SECURID_EPOCH + 86400 * 4000, SECURID_EPOCH + 86400 * 4000 + 86399}
RandSeeds == {Seed1, Seed2}
RandBytes == { [i \in 1..16 |-> (i * 37) % 256], [i \in 1..16 |-> 255] }

NoInput == [fn |-> "none"]
NoOutput == [pc |-> "none"]

Init ==
    /\ t = NoToken
    /\ rc = ERR_NONE
    /\ call = [op |-> "none"]
    /\ inp = NoInput
    /\ outp = NoOutput

DecodeToken ==
    \E in \in DecodeInputs, junk \in StackJunk :
        LET res == securid_decode_token(in, t, junk)
        IN /\ t' = res.t
           /\ rc' = res.rc
           /\ call' = [op |-> "securid_decode_token"]
           /\ UNCHANGED <<inp, outp>>

RandomToken ==
    \E now \in NowArgs, rng_ok \in BOOLEAN, seed \in RandSeeds, rb \in RandBytes :
        LET res == securid_random_token(now, rng_ok, seed, rb)
        IN /\ t' = res.t
           /\ rc' = res.rc
           /\ call' = [op |-> "securid_random_token"]
           /\ UNCHANGED <<inp, outp>>

DecryptSeed ==
    \E pass \in PassArgs, devid \in DevidArgs :
        LET res == securid_decrypt_seed(t, pass, devid)
        IN /\ t' = res.t
           /\ rc' = res.rc
           /\ call' = [op |-> "securid_decrypt_seed", pass |-> pass,
                       devid |-> devid, pre |-> t]
           /\ UNCHANGED <<inp, outp>>

Next == DecodeToken \/ RandomToken \/ DecryptSeed

Spec == Init /\ [][Next]_vars

(* the token record is not used by the specifications below *)
Idle ==
    /\ t = NoToken
    /\ rc = ERR_NONE
    /\ call = [op |-> "none"]

(***************************************************************************)
(* Specification SpecCodec: a record with a cleartext seed is encoded      *)
(* under a password and device id, the string is decoded into a fresh      *)
(* record, and the decoded record's seed is decrypted.                     *)
(***************************************************************************)
(* the longest accepted password and one byte more *)
PWMax == Rep(112, MAX_PASS)
PWTooLong == Rep(112, MAX_PASS + 1)

CodecPass == {NULL, <<>>, PW1, PWMax, PWTooLong}

(* device ids: none, empty, digits, hex digits with a separator, no digit at
   all, and runs of digits around both values of devid_len *)
CodecDevid ==
    {NULL, <<>>, DV1, DV2, <<45>>}
    \cup { Rep(55, n) : n \in {31, 32, 33, 34, 40, 41, 42} }

CodecSerial == {Serial1, Rep(48, SERIAL_CHARS)}
CodecFlags == {0, 17369, 65535}
CodecExpDate == {5000, 16383}

MaxCodecSeed == 2

CodecSeed(k) == [i \in 1..AES_KEY_SIZE |-> (i * (11 + k) + 7 * k) % 256]

CodecInit ==
    /\ Idle
    /\ \E k \in 1..MaxCodecSeed, sm \in {0, 1}, sn \in CodecSerial,
          fl \in CodecFlags, ex \in CodecExpDate,
          p \in CodecPass, dv \in CodecDevid :
          inp = [fn |-> "codec",
                 t |-> [NoToken EXCEPT !.serial = sn, !.dec_seed = CodecSeed(k),
                                       !.has_dec_seed = 1, !.flags = fl,
                                       !.exp_date = ex, !.is_smartphone = sm],
                 pass |-> p, devid |-> dv]
    /\ outp = [pc |-> "start"]

CodecEncode ==
    /\ inp.fn = "codec"
    /\ outp.pc = "start"
    /\ outp' = [pc |-> "encoded",
                enc |-> securid_encode_token(inp.t, inp.pass, inp.devid)]
    /\ UNCHANGED <<t, rc, call, inp>>

CodecDecode ==
    /\ outp.pc = "encoded"
    /\ outp.enc.rc = ERR_NONE
    /\ \E junk \in StackJunk :
          outp' = [pc |-> "decoded", enc |-> outp.enc,
                   dec |-> securid_decode_token(outp.enc.out, NoToken, junk)]
    /\ UNCHANGED <<t, rc, call, inp>>

(* the decoded record is decrypted with the encoder's password and device id
   or with another password *)
CodecDecrypt ==
    /\ outp.pc = "decoded"
    /\ outp.dec.rc = ERR_NONE
    /\ \E p \in {inp.pass, PW2} :
          outp' = [pc |-> "decrypted", enc |-> outp.enc, dec |-> outp.dec,
                   pass |-> p, devid |-> inp.devid,
                   dcr |-> securid_decrypt_seed(outp.dec.t, p, inp.devid)]
    /\ UNCHANGED <<t, rc, call, inp>>

CodecNext == CodecEncode \/ CodecDecode \/ CodecDecrypt

SpecCodec == CodecInit /\ [][CodecNext]_vars

(***************************************************************************)
(* Specification SpecKeyHash: generate_key_hash applied to passwords and   *)
(* device ids with up to MaxDevidDigits valid digits.                      *)
(***************************************************************************)
MaxDevidDigits == 43

(* a device id with n characters that are hex digits: either n times '7',
   or 'b' and '3' in turn, each followed by '-' *)
DevidPattern(n, f) ==
    IF f = 0 THEN Rep(55, n)
    ELSE [i \in 1..(2 * n) |->
            IF i % 2 = 0 THEN 45 ELSE IF i % 4 = 1 THEN 98 ELSE 51]

KeyHashInit ==
    /\ Idle
    /\ \E p \in CodecPass, sm \in {0, 1} :
          \E dv \in {NULL} \cup { DevidPattern(n, f) : n \in 0..MaxDevidDigits, f \in {0, 1} } :
              inp = [fn |-> "generate_key_hash", pass |-> p, devid |-> dv,
                     is_smartphone |-> sm]
    /\ outp = [pc |-> "start"]

KeyHashCall ==
    /\ inp.fn = "generate_key_hash"
    /\ outp.pc = "start"
    /\ outp' = [pc |-> "done",
                res |-> generate_key_hash(inp.pass, inp.devid, inp.is_smartphone)]
    /\ UNCHANGED <<t, rc, call, inp>>

KeyHashNext == KeyHashCall

SpecKeyHash == KeyHashInit /\ [][KeyHashNext]_vars

(***************************************************************************)
(* Specification SpecMac: securid_mac applied to inputs of every length    *)
(* up to MaxMacLen.                                                        *)
(***************************************************************************)
MaxMacLen == 50

MacFill == {0, 1, 2}

MacInput(n, f) ==
    [i \in 1..n |-> IF f = 0 THEN 0 ELSE IF f = 1 THEN (i * 7) % 256 ELSE 255 - (i % 3)]

MacInit ==
    /\ Idle
    /\ \E n \in 0..MaxMacLen, f \in MacFill :
          inp = [fn |-> "securid_mac", in |-> MacInput(n, f)]
    /\ outp = [pc |-> "start"]

MacCall ==
    /\ inp.fn = "securid_mac"
    /\ outp.pc = "start"
    /\ outp' = [pc |-> "done", blocks |-> MacBlocks(inp.in),
                hash |-> securid_mac(inp.in)]
    /\ UNCHANGED <<t, rc, call, inp>>

MacNext == MacCall

SpecMac == MacInit /\ [][MacNext]_vars

(***************************************************************************)
(* Specification SpecPin: a PIN is encrypted under a password with an IV   *)
(* from the RNG, and the returned string is decrypted.                     *)
(***************************************************************************)
MaxPinLen == 9

(* PINs of 3 to MaxPinLen digits, and PINs with a non-digit *)
PinArgs ==
    { [i \in 1..n |-> 48 + ((i * 3 + n) % 10)] : n \in 3..MaxPinLen }
    \cup { Rep(57, n) : n \in 4..MaxPinLen }
    \cup { <<49, 50, 51, 97>>, <<49, 45, 51, 52, 53>> }

PinPass == {<<>>, PW1, PW2, PWTooLong}

PinIVs ==
    { Zeros(AES_BLOCK_SIZE), Rep(255, AES_BLOCK_SIZE),
      [i \in 1..AES_BLOCK_SIZE |-> (i * 37 + 5) % 256],
      [i \in 1..AES_BLOCK_SIZE |-> (250 - i * 16) % 256] }

PinInit ==
    /\ Idle
    /\ \E p \in PinArgs, pw \in PinPass :
          inp = [fn |-> "securid_encrypt_pin", pin |-> p, password |-> pw]
    /\ outp = [pc |-> "start"]

PinEncrypt ==
    /\ inp.fn = "securid_encrypt_pin"
    /\ outp.pc = "start"
    /\ \E rand_ok \in BOOLEAN, malloc_ok \in BOOLEAN, iv \in PinIVs :
          outp' = [pc |-> "encrypted", iv |-> iv,
                   enc_pin |-> securid_encrypt_pin(inp.pin, inp.password,
                                                   rand_ok, iv, malloc_ok)]
    /\ UNCHANGED <<t, rc, call, inp>>

PinDecrypt ==
    /\ inp.fn = "securid_encrypt_pin"
    /\ outp.pc = "encrypted"
    /\ outp.enc_pin # NULL
    /\ \E pw \in {inp.password, PW2} :
          outp' = [pc |-> "decrypted", iv |-> outp.iv, enc_pin |-> outp.enc_pin,
                   password |-> pw,
                   res |-> securid_decrypt_pin(outp.enc_pin, pw)]
    /\ UNCHANGED <<t, rc, call, inp>>

PinNext == PinEncrypt \/ PinDecrypt

SpecPin == PinInit /\ [][PinNext]_vars

(***************************************************************************)
(* Specification SpecTokencode: securid_compute_tokencode on a decrypted   *)
(* token at the minutes that follow two base times.                        *)
(***************************************************************************)
MaxMinute == 7

(* 2014-05-13 16:00:00 and 2000-02-29 23:56:00 UTC *)
TokencodeBase == {1399996800, 951868560}

TokencodePins == {<<>>, <<49, 50, 51, 52>>, <<57, 57, 57, 57, 57, 57, 57, 57>>}

TokencodeInit ==
    /\ Idle
    /\ \E b \in TokencodeBase, m \in 0..MaxMinute, s \in {0, 59},
          seed \in {Seed1, Seed2}, pin \in TokencodePins :
          inp = [fn |-> "securid_compute_tokencode",
                 tok |-> [BaseToken(seed) EXCEPT !.has_dec_seed = 1, !.pin = pin],
                 now |-> b + 60 * m + s]
    /\ outp = [pc |-> "start"]

ComputeTokencode ==
    /\ inp.fn = "securid_compute_tokencode"
    /\ outp.pc = "start"
    /\ outp' = [pc |-> "done",
                res |-> TokencodeOut(inp.tok,
                                     securid_compute_tokencode(inp.tok, inp.now))]
    /\ UNCHANGED <<t, rc, call, inp>>

TokencodeNext == ComputeTokencode

SpecTokencode == TokencodeInit /\ [][TokencodeNext]_vars

(***************************************************************************)
(* Specification SpecExp: securid_check_exp at times around the end of     *)
(* the grace period T of 14-bit expiry dates.                              *)
(***************************************************************************)
ExpDates == {0, 1, 5000, 13896, 13897, 13898, 13899, 16382, 16383}

NowOffsets ==
    {-172800, -86401, -86400, -86399, -43200, -1, 0, 1, 43200, 86399, 86400,
     86401, 172800}

ExpInit ==
    /\ Idle
    /\ \E e \in ExpDates, off \in NowOffsets :
          inp = [fn |-> "securid_check_exp", exp_date |-> e, off |-> off,
                 now |-> TimeOf(e + 1, SECURID_EPOCH + halfday + off)]
    /\ outp = [pc |-> "start"]

CheckExp ==
    /\ inp.fn = "securid_check_exp"
    /\ outp.pc = "start"
    /\ \E r \in securid_check_exp(inp.exp_date, inp.now) :
          outp' = [pc |-> "done", ret |-> r]
    /\ UNCHANGED <<t, rc, call, inp>>

ExpNext == CheckExp

SpecExp == ExpInit /\ [][ExpNext]_vars

(***************************************************************************)
(* Claims about Spec.                                                      *)
(***************************************************************************)
(* C1: in every reachable state of the token record, has_dec_seed set
   implies short_mac(dec_seed) = dec_seed_hash, also after a
   securid_decrypt_seed call that returned an error. *)
C1_DecSeedHashInvariant ==
    t.has_dec_seed = 1 => securid_shortmac(t.dec_seed) = t.dec_seed_hash

(* C5: on a token with PASSPROT set, securid_decrypt_seed called with no
   password (NULL) or with the empty string returns MISSING_PASSWORD and
   leaves dec_seed and has_dec_seed as they were. *)
C5_EmptyPasswordIsMissing ==
    (/\ call.op = "securid_decrypt_seed"
     /\ HasFlag(call.pre.flags, FL_PASSPROT)
     /\ call.pass \in {NULL, <<>>})
    => /\ rc = ERR_MISSING_PASSWORD
       /\ t.dec_seed = call.pre.dec_seed
       /\ t.has_dec_seed = call.pre.has_dec_seed

(***************************************************************************)
(* Claims about SpecCodec.                                                 *)
(***************************************************************************)
SamePassword == outp.pass = inp.pass

Absent(str) == str = NULL \/ str = <<>>

(* C2, as stated: after encode, decode and decrypt with the same password
   and device id, for either value of is_smartphone, securid_decrypt_seed
   returns ERR_NONE and dec_seed is the original seed. *)
C2_SeedRoundTripAnySmartphone ==
    (outp.pc = "decrypted" /\ SamePassword)
    => /\ outp.dcr.rc = ERR_NONE
       /\ outp.dcr.t.dec_seed = inp.t.dec_seed

(* C2, amended: the same round trip returns ERR_NONE and the original seed
   whenever is_smartphone is 0 or no non-empty device id is given (the
   device id and password being ones securid_encode_token accepted). *)
C2_SeedRoundTrip ==
    (/\ outp.pc = "decrypted"
     /\ SamePassword
     /\ (inp.t.is_smartphone = 0 \/ Absent(inp.devid)))
    => /\ outp.dcr.rc = ERR_NONE
       /\ outp.dcr.t.dec_seed = inp.t.dec_seed
       /\ outp.dcr.t.has_dec_seed = 1

C2_Witness ==
    /\ outp.pc = "decrypted"
    /\ SamePassword
    /\ inp.pass = PWMax
    /\ inp.devid = Rep(55, 32)
    /\ inp.t.is_smartphone = 0
    /\ outp.dcr.rc = ERR_NONE
    /\ outp.dcr.t.dec_seed = CodecSeed(MaxCodecSeed)

(* the value of n decimal digits '0'..'7' read as base-8 digits *)
RECURSIVE OctalValue(_)
OctalValue(digits) ==
    IF digits = <<>> THEN 0
    ELSE 8 * OctalValue(SubSeq(digits, 1, Len(digits) - 1))
         + (digits[Len(digits)] - 48)

ExpectedFlags(flags, pass, devid) ==
    LET f0 == ClearFlag(ClearFlag(flags, FL_PASSPROT), FL_SNPROT)
    IN f0 + (IF Absent(pass) THEN 0 ELSE FL_PASSPROT)
          + (IF Absent(devid) THEN 0 ELSE FL_SNPROT)

(* C3: decoding the output of securid_encode_token returns ERR_NONE: the
   string is "2", the serial, 63 digits and 5 checksum digits that are the
   15-bit short MAC of the 76 characters before them; and the decoded
   enc_seed, flags, exp_date, dec_seed_hash, device_id_hash and serial are
   the values the encoder packed, with PASSPROT and SNPROT set exactly when
   a non-empty password and device id were supplied. *)
C3_CodecRoundTrip ==
    outp.pc \in {"decoded", "decrypted"}
    => /\ outp.dec.rc = ERR_NONE
       /\ Len(outp.enc.out) = CHECKSUM_OFS + CHECKSUM_CHARS
       /\ outp.enc.out[1] = 50
       /\ OctalValue(SubSeq(outp.enc.out, CHECKSUM_OFS + 1,
                            CHECKSUM_OFS + CHECKSUM_CHARS))
              = securid_shortmac(SubSeq(outp.enc.out, 1, CHECKSUM_OFS))
       /\ outp.dec.t.serial = inp.t.serial
       /\ outp.dec.t.enc_seed = outp.enc.newt.enc_seed
       /\ outp.dec.t.flags = ExpectedFlags(inp.t.flags, inp.pass, inp.devid)
       /\ outp.dec.t.exp_date = inp.t.exp_date
       /\ outp.dec.t.dec_seed_hash = securid_shortmac(inp.t.dec_seed)
       /\ outp.dec.t.device_id_hash = outp.enc.newt.device_id_hash
       /\ outp.dec.t.has_enc_seed = 1

C3_Witness ==
    /\ outp.pc = "decoded"
    /\ inp.pass = PWMax
    /\ inp.devid = DV2
    /\ inp.t.flags = 65535
    /\ inp.t.exp_date = 16383
    /\ outp.dec.rc = ERR_NONE
    /\ HasFlag(outp.dec.t.flags, FL_PASSPROT)
    /\ outp.dec.t.exp_date = 16383

(***************************************************************************)
(* Claims about SpecKeyHash.                                               *)
(***************************************************************************)
(* the characters of str that are in the set keep, in order *)
Filtered(str, keep) ==
    LET kept == { i \in 1..Len(str) : str[i] \in keep }
    IN [k \in 1..Cardinality(kept) |->
          str[CHOOSE i \in kept : Cardinality({ j \in kept : j <= i }) = k]]

(* the device id's valid digits, in order *)
ValidDigits(devid, is_smartphone) ==
    IF devid = NULL THEN <<>>
    ELSE IF is_smartphone # 0
    THEN Filtered(devid, (48..57) \cup (65..70) \cup (97..102))
    ELSE Filtered(devid, 48..57)

PassBytes(pass) == IF pass = NULL THEN <<>> ELSE pass

KeyHashDone == inp.fn = "generate_key_hash" /\ outp.pc = "done"

PassAccepted == Len(PassBytes(inp.pass)) <= MAX_PASS

(* C8: generate_key_hash fails with BAD_PASSWORD whenever the device id has
   more than devid_len valid digits, never copies more than devid_len
   device-id characters into the key buffer, and accepts exactly devid_len
   or fewer valid digits. *)
C8_DevidDigitLimit ==
    (KeyHashDone /\ PassAccepted)
    => LET nv == Len(ValidDigits(inp.devid, inp.is_smartphone))
           devid_len == IF inp.is_smartphone # 0 THEN 40 ELSE 32
       IN /\ nv > devid_len => outp.res.rc = ERR_BAD_PASSWORD
          /\ nv <= devid_len => outp.res.rc = ERR_NONE
          /\ outp.res.copied <= devid_len

PadRight(str, n) == SubSeq(str \o Zeros(n), 1, n)

(* C9, as stated: the MAC input is the password, the filtered device id
   right-padded with zero bytes to devid_len bytes, and the magic suffix:
   password length + devid_len + 7 bytes. *)
C9_MacInputPadded ==
    (KeyHashDone /\ outp.res.rc = ERR_NONE)
    => LET devid_len == IF inp.is_smartphone # 0 THEN 40 ELSE 32
       IN /\ Len(outp.res.mac_in) = Len(PassBytes(inp.pass)) + devid_len + 7
          /\ outp.res.mac_in =
                PassBytes(inp.pass)
                \o PadRight(ValidDigits(inp.devid, inp.is_smartphone), devid_len)
                \o <<216, 245, 50, 83, 130, 137, 0>>

(* C9, amended: the MAC input is the password, the filtered device id as it
   is (not padded), and the magic suffix: password length + number of valid
   digits + 7 bytes.  Only device_id_hash is taken over the filtered device
   id right-padded with zero bytes to devid_len bytes. *)
C9_MacInputUnpadded ==
    (KeyHashDone /\ outp.res.rc = ERR_NONE)
    => LET devid_len == IF inp.is_smartphone # 0 THEN 40 ELSE 32
           digits == ValidDigits(inp.devid, inp.is_smartphone)
       IN /\ Len(outp.res.mac_in) = Len(PassBytes(inp.pass)) + Len(digits) + 7
          /\ outp.res.mac_in =
                PassBytes(inp.pass) \o digits \o <<216, 245, 50, 83, 130, 137, 0>>
          /\ outp.res.key_hash = securid_mac(outp.res.mac_in)
          /\ outp.res.device_id_hash = securid_shortmac(PadRight(digits, devid_len))

C9_Witness ==
    /\ KeyHashDone
    /\ outp.res.rc = ERR_NONE
    /\ inp.pass = PW1
    /\ inp.is_smartphone = 1
    /\ inp.devid = DevidPattern(3, 1)
    /\ outp.res.mac_in = <<112, 119, 98, 51, 98, 216, 245, 50, 83, 130, 137, 0>>

(***************************************************************************)
(* Claims about SpecMac.                                                   *)
(***************************************************************************)
(* the k-th 16-byte block of in *)
InputBlock(in, k) == SubSeq(in, 16 * (k - 1) + 1, 16 * k)

(* the bytes of in after its first k blocks, zero-padded to 16 bytes *)
FinalBlock(in, k) == PadRight(SubSeq(in, 16 * k + 1, Len(in)), 16)

(* the block holding n * 8 big-endian in its low bytes *)
LengthBlock(n) ==
    [k \in 1..16 |-> IF k <= 12 THEN 0 ELSE ((n * 8) \div (256 ^ (16 - k))) % 256]

BlockSequence(in, lead, extra) ==
    [k \in 1..lead |-> InputBlock(in, k)]
    \o <<FinalBlock(in, lead)>>
    \o (IF extra THEN <<Zeros(16)>> ELSE <<>>)
    \o <<LengthBlock(Len(in))>>

Tightened(blocks) ==
    LET work == MacAbsorb(blocks, Rep(255, 16))
    IN XorBlock(CipherEnc(work, work), work)

MacDone == inp.fn = "securid_mac" /\ outp.pc = "done"

(* C10, as stated: securid_mac absorbs the floor(n/16) full blocks, then the
   rest zero-padded (an all-zero block when n is a multiple of 16), then an
   all-zero block when the number of blocks absorbed so far is odd, then
   the length block. *)
C10_BlocksFloor ==
    MacDone
    => LET full == Len(inp.in) \div 16
       IN outp.blocks = BlockSequence(inp.in, full, (full + 1) % 2 = 1)

(* C10, amended: with lead = 0 for n = 0 and (n - 1) \div 16 otherwise,
   securid_mac absorbs the first lead 16-byte blocks, then the remaining
   n - 16 * lead bytes (1 to 16 of them unless n = 0) zero-padded to 16
   bytes, then an all-zero block exactly when lead is odd, then the length
   block; the result is AES(key = work, work) XOR work. *)
C10_BlocksBeforeLast ==
    MacDone
    => LET n == Len(inp.in)
           lead == IF n = 0 THEN 0 ELSE (n - 1) \div 16
       IN /\ outp.blocks = BlockSequence(inp.in, lead, lead % 2 = 1)
          /\ outp.hash = Tightened(BlockSequence(inp.in, lead, lead % 2 = 1))

C10_Witness ==
    /\ MacDone
    /\ Len(inp.in) = 32
    /\ Len(outp.blocks) = 4
    /\ outp.blocks[2] = InputBlock(inp.in, 2)
    /\ outp.blocks[2] # Zeros(16)
    /\ outp.blocks[3] = Zeros(16)

(***************************************************************************)
(* Claims about SpecPin.                                                   *)
(***************************************************************************)
(* C4: for every PIN of 4 to 8 decimal digits, every password and every IV,
   securid_decrypt_pin applied with the same password to the 64-character
   string that securid_encrypt_pin returned gives ERR_NONE and writes out
   the original PIN; a string is returned for such PINs only. *)
C4_PinRoundTrip ==
    (/\ inp.fn = "securid_encrypt_pin"
     /\ outp.pc = "decrypted"
     /\ outp.password = inp.password)
    => /\ Len(inp.pin) \in 4..8
       /\ \A i \in 1..Len(inp.pin) : inp.pin[i] \in 48..57
       /\ Len(outp.enc_pin) = 64
       /\ outp.res.rc = ERR_NONE
       /\ outp.res.pin = inp.pin

C4_Witness ==
    /\ inp.fn = "securid_encrypt_pin"
    /\ outp.pc = "decrypted"
    /\ outp.password = inp.password
    /\ inp.password = PW1
    /\ Len(inp.pin) = 8
    /\ \E k \in 1..64 : outp.enc_pin[k] >= 97
    /\ outp.res = [rc |-> ERR_NONE, pin |-> inp.pin]

(***************************************************************************)
(* Claims about SpecTokencode.                                             *)
(***************************************************************************)
TokencodeDone == inp.fn = "securid_compute_tokencode" /\ outp.pc = "done"

(* the UTC minute of now *)
UtcMinute == (inp.now \div 60) % 60

(* slice s of the final AES output: bytes [4s, 4s + 4) *)
Slice(s) == SubSeq(outp.res.key0, 4 * s + 1, 4 * s + 4)

(* C6, as stated: the slice chosen as the tokencode follows the UTC minute
   rounded down to 4: minutes 0, 3, 4 and 7 select slices 0, 0, 1 and 1. *)
C6_SliceOfQuarter ==
    (TokencodeDone /\ UtcMinute \in {0, 3, 4, 7})
    => outp.res.tokencode = Slice(UtcMinute \div 4)

(* C6, amended: the slice chosen as the tokencode is the UTC minute modulo
   4, so that minutes 0, 3, 4 and 7 select slices 0, 3, 0 and 3; the minute
   rounded down to a multiple of 4 is what the BCD time of the keys holds. *)
C6_SliceOfMinuteMod4 ==
    TokencodeDone
    => LET rounded == UtcMinute - (UtcMinute % 4)
       IN /\ outp.res.tokencode = Slice(UtcMinute % 4)
          /\ outp.res.bcd_time[6] = (rounded \div 10) * 16 + (rounded % 10)

C6_Witness ==
    /\ TokencodeDone
    /\ UtcMinute = 7
    /\ outp.res.tokencode = Slice(3)
    /\ outp.res.tokencode # Slice(1)
    /\ outp.res.bcd_time[6] = 4

(***************************************************************************)
(* Claims about SpecExp.                                                   *)
(***************************************************************************)
(* C7: for every 14-bit exp_date, with T the epoch (day 10957 of the Unix
   era) plus exp_date + 1 days plus 12 hours, securid_check_exp returns 0
   at now = T - 1 and at now = T, a negative value at now = T + 86400, and
   always the quotient (T - now) / 86400 truncated toward zero. *)
C7_ExpBoundary ==
    (/\ inp.fn = "securid_check_exp"
     /\ outp.pc = "done"
     /\ inp.exp_date \in 0..16383
     /\ inp.now = [d |-> 10957 + inp.exp_date + 1 + ((43200 + inp.off) \div 86400),
                   s |-> (43200 + inp.off) % 86400])
    => /\ inp.off = -1 => outp.ret = 0
       /\ inp.off = 0 => outp.ret = 0
       /\ inp.off = 86400 => outp.ret < 0
       /\ outp.ret = (IF inp.off <= 0 THEN (-inp.off) \div 86400
                      ELSE -(inp.off \div 86400))

====
